---- MODULE Spec2Model ----
(***************************************************************************)
(* Model of src/server.py: the MCP server "tools-and-resources-server".    *)
(*                                                                         *)
(* The four request handlers (list_tools, handle_tools, list_resources,    *)
(* read_resource) are modelled as operators over the working directory,    *)
(* and one action per request kind applies them and records the response.  *)
(*                                                                         *)
(* Text.  A Python str is a sequence of units.  File names, URIs, tool     *)
(* names and note contents are sequences of one-character strings, so      *)
(* endswith, startswith, rstrip and replace are computed character by      *)
(* character.  The literal segments of an f-string that the code never     *)
(* inspects ("Note created: ", "[Errno 2] No such file or directory: ")    *)
(* are one unit each.  The emoji of the source are written <cross>,        *)
(* <check>, <wave>, <folder> and <page>.                                   *)
(***************************************************************************)
EXTENDS Naturals, Sequences, FiniteSets

VARIABLES
    fs,      \* the working directory: entry name -> [kind, text]
    calls,   \* number of CallTool requests served so far
    resp     \* the last request served and the response it got

vars == <<fs, calls, resp>>

---------------------------------------------------------------------------
(* Bounds *)

MaxCalls == 1      \* CallTool requests per behaviour

Times == {0, 1}    \* the instants datetime.now() may report

---------------------------------------------------------------------------
(* str primitives *)

EndsWith(s, suffix) ==
    /\ Len(s) >= Len(suffix)
    /\ SubSeq(s, Len(s) - Len(suffix) + 1, Len(s)) = suffix

StartsWith(s, prefix) ==
    /\ Len(s) >= Len(prefix)
    /\ SubSeq(s, 1, Len(prefix)) = prefix

\* str.rstrip(ch): every trailing ch is removed
RECURSIVE RStrip(_, _)
RStrip(s, ch) ==
    IF Len(s) > 0 /\ s[Len(s)] = ch THEN RStrip(SubSeq(s, 1, Len(s) - 1), ch) ELSE s

\* the least index at which old occurs in s, 0 when it does not
FindFirst(s, old) ==
    LET hits == {i \in 1..(Len(s) + 1 - Len(old)) : SubSeq(s, i, i + Len(old) - 1) = old}
    IN  IF Len(s) < Len(old) \/ hits = {} THEN 0
        ELSE CHOOSE i \in hits : \A j \in hits : i <= j

\* str.replace(old, new, 1): the first occurrence only
ReplaceFirst(s, old, new) ==
    LET i == FindFirst(s, old)
    IN  IF i = 0 THEN s
        ELSE SubSeq(s, 1, i - 1) \o new \o SubSeq(s, i + Len(old), Len(s))

\* "\n".join(lines)
RECURSIVE Join(_, _)
Join(sep, lines) ==
    IF lines = <<>> THEN <<>>
    ELSE IF Len(lines) = 1 THEN lines[1]
    ELSE lines[1] \o sep \o Join(sep, Tail(lines))

\* repr(str): quoted, a backslash doubled
RECURSIVE Escape(_)
Escape(s) ==
    IF s = <<>> THEN <<>>
    ELSE (IF s[1] = "\\" THEN <<"\\", "\\">> ELSE <<s[1]>>) \o Escape(Tail(s))

Repr(s) == <<"'">> \o Escape(s) \o <<"'">>

\* str(int) for the small counts the status resource reports
Digit(d) ==
    CASE d = 0 -> "0" [] d = 1 -> "1" [] d = 2 -> "2" [] d = 3 -> "3" [] d = 4 -> "4"
      [] d = 5 -> "5" [] d = 6 -> "6" [] d = 7 -> "7" [] d = 8 -> "8" [] d = 9 -> "9"

RECURSIVE IntStr(_)
IntStr(n) ==
    IF n < 10 THEN <<Digit(n)>> ELSE IntStr(n \div 10) \o <<Digit(n % 10)>>

\* datetime.now() read at instant t, as str() and as isoformat() render it
TimeOfDay(t) == <<"1", "3", ":", "4", "3", ":", "3">> \o IntStr(t)
StrDatetime(t) == <<"2026-11-02", " ">> \o TimeOfDay(t)
IsoFormat(t) == <<"2026-11-02", "T">> \o TimeOfDay(t)

---------------------------------------------------------------------------
(* Literals of the source *)

SAY_HELLO == <<"s", "a", "y", "_", "h", "e", "l", "l", "o">>
CREATE_SAMPLE_DATA ==
    <<"c", "r", "e", "a", "t", "e", "_", "s", "a", "m", "p", "l", "e", "_", "d", "a", "t", "a">>
WRITE_NOTE == <<"w", "r", "i", "t", "e", "_", "n", "o", "t", "e">>

DOT_JSON == <<".", "j", "s", "o", "n">>
DOT_TXT == <<".", "t", "x", "t">>
FILE_SCHEME == <<"f", "i", "l", "e", ":", "/", "/">>
CURRENT_DIRECTORY_URI ==
    FILE_SCHEME \o <<"c", "u", "r", "r", "e", "n", "t", "-", "d", "i", "r", "e", "c", "t", "o", "r", "y">>
SERVER_STATUS_URI ==
    <<"s", "e", "r", "v", "e", "r", ":", "/", "/", "s", "t", "a", "t", "u", "s">>

---------------------------------------------------------------------------
(* The working directory *)

File(text) == [kind |-> "file", text |-> text]
Dir == [kind |-> "dir", text |-> <<>>]

Exists(d, name) == name \in DOMAIN d
IsDir(d, name) == Exists(d, name) /\ d[name].kind = "dir"
IsFile(d, name) == Exists(d, name) /\ d[name].kind = "file"

OSError(type, msg, path) == [type |-> type, msg |-> <<msg>> \o Repr(path)]
NoExc == [type |-> "none", msg |-> <<>>]

\* open(path, 'r') followed by f.read(): the text, or the OSError raised
OpenRead(d, path) ==
    LET base == RStrip(path, "/")
        slash == base # path
    IN  IF base = <<>> \/ ~Exists(d, base)
        THEN [exc |-> OSError("FileNotFoundError", "[Errno 2] No such file or directory: ", path),
              text |-> <<>>]
        ELSE IF IsDir(d, base)
        THEN [exc |-> OSError("IsADirectoryError", "[Errno 21] Is a directory: ", path),
              text |-> <<>>]
        ELSE IF slash
        THEN [exc |-> OSError("NotADirectoryError", "[Errno 20] Not a directory: ", path),
              text |-> <<>>]
        ELSE [exc |-> NoExc, text |-> d[base].text]

\* open(path, 'w'): NoExc when the file is created or truncated, else the OSError
OpenWrite(d, path) ==
    IF path = <<>>
    THEN OSError("FileNotFoundError", "[Errno 2] No such file or directory: ", path)
    ELSE IF path[Len(path)] = "/" \/ IsDir(d, path)
    THEN OSError("IsADirectoryError", "[Errno 21] Is a directory: ", path)
    ELSE NoExc

\* the directory after text has been written to path and the file closed
WriteFile(d, path, text) ==
    [n \in DOMAIN d \cup {path} |-> IF n = path THEN File(text) ELSE d[n]]

---------------------------------------------------------------------------
(* Values of an argument bundle (the JSON object of a CallTool request) *)

Absent == [t |-> "absent", s |-> <<>>]      \* the key is not in the dict
Null == [t |-> "null", s |-> <<>>]          \* JSON null, None in Python
Str(s) == [t |-> "str", s |-> s]

\* str(v) as an f-string renders it
Format(v) == IF v.t = "str" THEN v.s ELSE <<"N", "o", "n", "e">>

\* the characters of a dict key
KeyChars(k) ==
    CASE k = "name" -> <<"n", "a", "m", "e">>
      [] k = "filename" -> <<"f", "i", "l", "e", "n", "a", "m", "e">>
      [] k = "content" -> <<"c", "o", "n", "t", "e", "n", "t">>

\* str(KeyError(k)) is repr(k)
KeyError(k) == [type |-> "KeyError", msg |-> Repr(KeyChars(k))]

TextContent(text) == [type |-> "text", text |-> text]

Returned(content, d) == [outcome |-> "returned", exc |-> NoExc, content |-> content, fs |-> d]
Raised(exc, d) == [outcome |-> "raised", exc |-> exc, content |-> <<>>, fs |-> d]

---------------------------------------------------------------------------
(* Tools *)

Tool(name, description, properties, required) ==
    [name |-> name, description |-> description,
     inputSchema |-> [type |-> "object", properties |-> properties, required |-> required]]

\* list_tools with write_note declared ahead of create_sample_data
list_tools_Reordered ==
    << Tool(SAY_HELLO, "Says hello to someone", {"name"}, <<"name">>),
       Tool(WRITE_NOTE, "Write a note to a text file",
            {"filename", "content"}, <<"filename", "content">>),
       Tool(CREATE_SAMPLE_DATA, "Create sample JSON data files for testing resources",
            {"filename"}, <<"filename">>) >>

list_tools ==
    << Tool(SAY_HELLO, "Says hello to someone", {"name"}, <<"name">>),
       Tool(CREATE_SAMPLE_DATA, "Create sample JSON data files for testing resources",
            {"filename"}, <<"filename">>),
       Tool(WRITE_NOTE, "Write a note to a text file",
            {"filename", "content"}, <<"filename", "content">>) >>

\* json.dumps(sample_data, indent=2)
SampleData(now) ==
    <<"{\n  \"created_at\": \"">> \o IsoFormat(now)
        \o <<"\",\n  \"server\": \"tools-and-resources-server\",\n  \"data\": {users, settings}\n}">>

say_hello(d, arguments) ==
    LET person_name == IF arguments.name.t = "absent" THEN Str(<<"W", "o", "r", "l", "d">>)
                       ELSE arguments.name
    IN  Returned(<<TextContent(<<"Hello, ">> \o Format(person_name) \o <<"! <wave>">>)>>, d)

create_sample_data(d, arguments, now) ==
    IF arguments.filename.t = "absent" THEN Raised(KeyError("filename"), d)
    ELSE IF arguments.filename.t = "null"
    THEN Raised([type |-> "AttributeError",
                 msg |-> <<"'NoneType' object has no attribute 'endswith'">>], d)
    ELSE
        LET given == arguments.filename.s
            filename == IF ~EndsWith(given, DOT_JSON) THEN given \o DOT_JSON ELSE given
            e == OpenWrite(d, filename)
        IN  IF e = NoExc
            THEN Returned(<<TextContent(<<"<check> Created sample data file: ">> \o filename)>>,
                          WriteFile(d, filename, SampleData(now)))
            ELSE Returned(<<TextContent(<<"<cross> Error creating file: ">> \o e.msg)>>, d)

write_note(d, arguments, now) ==
    IF arguments.filename.t = "absent" THEN Raised(KeyError("filename"), d)
    ELSE IF arguments.content.t = "absent" THEN Raised(KeyError("content"), d)
    ELSE
        LET content == arguments.content
            e == IF arguments.filename.t = "null"
                 THEN [type |-> "TypeError",
                       msg |-> <<"expected str, bytes or os.PathLike object, not NoneType">>]
                 ELSE OpenWrite(d, arguments.filename.s)
        IN  IF e = NoExc
            THEN Returned(<<TextContent(<<"<check> Note saved to: ">> \o arguments.filename.s)>>,
                          WriteFile(d, arguments.filename.s,
                                    <<"Note created: ">> \o StrDatetime(now) \o <<"\n", "\n">>
                                        \o Format(content)))
            ELSE Returned(<<TextContent(<<"<cross> Error writing note: ">> \o e.msg)>>, d)

\* the else branch raising instead of answering
unknown_tool_Raises(d, name) ==
    Raised([type |-> "ValueError", msg |-> <<"Unknown tool: ">> \o name], d)

UNKNOWN_TOOL == <<"U", "n", "k", "n", "o", "w", "n", " ", "t", "o", "o", "l", ":", " ">>

unknown_tool(d, name) ==
    Returned(<<TextContent(<<"<cross>", " ">> \o UNKNOWN_TOOL \o name)>>, d)

handle_tools(d, name, arguments, now) ==
    IF name = SAY_HELLO THEN say_hello(d, arguments)
    ELSE IF name = CREATE_SAMPLE_DATA THEN create_sample_data(d, arguments, now)
    ELSE IF name = WRITE_NOTE THEN write_note(d, arguments, now)
    ELSE unknown_tool(d, name)

---------------------------------------------------------------------------
(* Resources *)

\* the order in which the file system enumerates a set of entries: fixed for a
\* given set, and not sorted
RECURSIVE Enumerate(_)
Enumerate(S) ==
    IF S = {} THEN <<>>
    ELSE LET n == CHOOSE x \in S : TRUE IN <<n>> \o Enumerate(S \ {n})

\* Path('.').glob('*' + ext): every entry whose name ends with ext, a directory included
Glob(d, ext) == Enumerate({n \in DOMAIN d : EndsWith(n, ext)})

\* os.listdir('.')
ListDir(d) == Enumerate(DOMAIN d)

Resource(uri, name, description, mimeType) ==
    [uri |-> uri, name |-> name, description |-> description, mimeType |-> mimeType]

JsonResource(json_file) ==
    Resource(FILE_SCHEME \o json_file, <<"JSON Data: ">> \o json_file,
             <<"JSON data from ">> \o json_file, "application/json")

TxtResource(txt_file) ==
    Resource(FILE_SCHEME \o txt_file, <<"Text File: ">> \o txt_file,
             <<"Text content from ">> \o txt_file, "text/plain")

\* list_resources without the scan for text files
list_resources_JsonOnly(d) ==
    LET json == Glob(d, DOT_JSON)
    IN  << Resource(CURRENT_DIRECTORY_URI, <<"Current Directory">>,
                    <<"List of files in the current directory">>, "text/plain"),
           Resource(SERVER_STATUS_URI, <<"Server Status">>,
                    <<"Current server status and information">>, "application/json") >>
        \o [i \in 1..Len(json) |-> JsonResource(json[i])]

list_resources(d) ==
    LET json == Glob(d, DOT_JSON)
        txt == Glob(d, DOT_TXT)
    IN  << Resource(CURRENT_DIRECTORY_URI, <<"Current Directory">>,
                    <<"List of files in the current directory">>, "text/plain"),
           Resource(SERVER_STATUS_URI, <<"Server Status">>,
                    <<"Current server status and information">>, "application/json") >>
        \o [i \in 1..Len(json) |-> JsonResource(json[i])]
        \o [i \in 1..Len(txt) |-> TxtResource(txt[i])]

TextResourceContents(uri, text) == [uri |-> uri, text |-> text]

\* branch is the arm of read_resource that ran; result is how its read ended
ReadResourceResult(branch, result, uri, text) ==
    [branch |-> branch, result |-> result, contents |-> <<TextResourceContents(uri, text)>>]

DirectoryListing(d) ==
    LET items == ListDir(d)
        files == [i \in 1..Len(items) |->
                    IF IsDir(d, items[i]) THEN <<"<folder> ">> \o items[i] \o <<"/">>
                    ELSE <<"<page> ">> \o items[i]]
    IN  <<"Current Directory Contents:\n">> \o Join(<<"\n">>, files)

base_resources == 2
tools_count == 3

\* the status count without txt_count
total_resources_JsonOnly(d) == base_resources + Len(Glob(d, DOT_JSON))

total_resources(d) == base_resources + Len(Glob(d, DOT_JSON)) + Len(Glob(d, DOT_TXT))

\* json.dumps(status_data, indent=2)
StatusData(total, now) ==
    <<"{\n  \"server_name\": \"tools-and-resources-server\",\n  \"version\": \"1.0.0\",\n  \"status\": \"running\",\n  \"uptime\": \"active\",\n  \"capabilities\": [\"tools\", \"resources\"],\n  \"tools_count\": ">>
        \o IntStr(tools_count) \o <<",\n  \"resources_available\": ">> \o IntStr(total)
        \o <<",\n  \"current_time\": \"">> \o IsoFormat(now) \o <<"\"\n}">>

\* the file:// arm opening the URI itself, the scheme left in place
FilePath_KeepsScheme(uri_str) ==
    IF EndsWith(uri_str, <<"/">>) \/ EndsWith(uri_str, <<"\\">>)
    THEN SubSeq(uri_str, 1, Len(uri_str) - 1)
    ELSE uri_str

\* the path the file:// arm opens: the scheme removed once, then one trailing separator
FilePath(uri_str) ==
    LET filename == ReplaceFirst(uri_str, FILE_SCHEME, <<>>)
    IN  IF EndsWith(filename, <<"/">>) \/ EndsWith(filename, <<"\\">>)
        THEN SubSeq(filename, 1, Len(filename) - 1)
        ELSE filename

\* the file:// arm with the one handler "except Exception" for every failure
read_file_CatchAll(d, uri_str) ==
    LET filename == FilePath(uri_str)
        r == OpenRead(d, filename)
    IN  IF r.exc = NoExc THEN ReadResourceResult("file", "read", uri_str, r.text)
        ELSE ReadResourceResult("file", "error", uri_str,
                                <<"<cross> Error reading file: ">> \o r.exc.msg)

read_file(d, uri_str) ==
    LET filename == FilePath(uri_str)
        r == OpenRead(d, filename)
    IN  IF r.exc = NoExc THEN ReadResourceResult("file", "read", uri_str, r.text)
        ELSE IF r.exc.type = "FileNotFoundError"
        THEN ReadResourceResult("file", "not_found", uri_str,
                                <<"<cross> File not found: ">> \o filename)
        ELSE ReadResourceResult("file", "error", uri_str,
                                <<"<cross> Error reading file: ">> \o r.exc.msg)

read_resource(d, uri_str, now) ==
    LET normalized_uri == RStrip(uri_str, "/")
    IN  IF normalized_uri = CURRENT_DIRECTORY_URI
        THEN ReadResourceResult("directory", "read", uri_str, DirectoryListing(d))
        ELSE IF normalized_uri = SERVER_STATUS_URI
        THEN ReadResourceResult("status", "read", uri_str,
                                StatusData(total_resources(d), now))
        ELSE IF StartsWith(normalized_uri, FILE_SCHEME)
        THEN read_file(d, uri_str)
        ELSE ReadResourceResult("unknown", "unknown", uri_str,
                                <<"<cross> Unknown resource URI: ">> \o uri_str)

---------------------------------------------------------------------------
(* Requests the client may send *)

GET_TIME == <<"g", "e", "t", "_", "t", "i", "m", "e">>     \* a name no branch handles

ToolNames == {SAY_HELLO, CREATE_SAMPLE_DATA, WRITE_NOTE, GET_TIME}

N_TXT == <<"n", ".", "t", "x", "t">>
D_TXT == <<"d", ".", "t", "x", "t">>
B_BACKSLASH == <<"b", "\\">>
CURRENT_DIRECTORY == <<"c", "u", "r", "r", "e", "n", "t", "-", "d", "i", "r", "e", "c", "t", "o", "r", "y">>
OLD_JSON == <<"o", "l", "d", ".", "j", "s", "o", "n">>
NX_TXT == <<"n", "x", ".", "t", "x", "t">>

FileNames == {OLD_JSON, N_TXT, D_TXT, B_BACKSLASH, CURRENT_DIRECTORY}
Contents == {<<"h", "i">>, <<"y", "o">>}

NoArguments == [name |-> Absent, filename |-> Absent, content |-> Absent]

Bundles ==
    {[NoArguments EXCEPT !.name = v] : v \in {Absent, Null, Str(<<"A", "l">>)}}
    \cup {[NoArguments EXCEPT !.filename = f, !.content = c] :
            f \in {Absent, Null} \cup {Str(n) : n \in FileNames},
            c \in {Absent} \cup {Str(x) : x \in Contents}}

Suffixes == {<<>>, <<"/">>, <<"/", "/">>}

URIs ==
    {u \o x : u \in {CURRENT_DIRECTORY_URI, SERVER_STATUS_URI,
                     <<"s", "t", "a", "t", "u", "s", ":", "/", "/", "s", "e", "r", "v", "e", "r">>}
                    \cup {FILE_SCHEME \o n : n \in {N_TXT, D_TXT, B_BACKSLASH, OLD_JSON, NX_TXT}},
              x \in Suffixes}

---------------------------------------------------------------------------
(* The server *)

Response(op, name, arguments, uri, outcome, exc, branch, result, body) ==
    [op |-> op, name |-> name, arguments |-> arguments, uri |-> uri, outcome |-> outcome,
     exc |-> exc, branch |-> branch, result |-> result, body |-> body]

NoResponse == Response("none", <<>>, NoArguments, <<>>, "returned", NoExc, "none", "none", <<>>)

\* working directories the server may be started in
InitialDirs ==
    LET base == [n \in {<<"s", "e", "r", "v", "e", "r", ".", "p", "y">>, <<"s", "u", "b">>} |->
                    IF n = <<"s", "u", "b">> THEN Dir ELSE File(<<"import asyncio">>)]
        with(d, n, e) == [m \in DOMAIN d \cup {n} |-> IF m = n THEN e ELSE d[m]]
    IN  {base, with(base, D_TXT, Dir), with(base, OLD_JSON, File(<<"{", "}">>))}

Init ==
    /\ fs \in InitialDirs
    /\ calls = 0
    /\ resp = NoResponse

ListTools ==
    /\ resp' = Response("list_tools", <<>>, NoArguments, <<>>, "returned", NoExc,
                        "none", "none", list_tools)
    /\ UNCHANGED <<fs, calls>>

\* the handlers that call datetime.now() read one of Times; the others read no clock
ClockOfTool(name) == IF name \in {CREATE_SAMPLE_DATA, WRITE_NOTE} THEN Times ELSE {0}
ClockOfResource(uri) == IF RStrip(uri, "/") = SERVER_STATUS_URI THEN Times ELSE {0}

\* an exception that leaves handle_tools is recorded as the outcome "raised";
\* what becomes of it is the MCP library's business, not this module's
CallTool(name, arguments) ==
    /\ calls < MaxCalls
    /\ \E now \in ClockOfTool(name) :
         LET r == handle_tools(fs, name, arguments, now)
         IN  /\ fs' = r.fs
             /\ resp' = Response("call_tool", name, arguments, <<>>, r.outcome, r.exc,
                                 "none", "none", r.content)
    /\ calls' = calls + 1

ListResources ==
    /\ resp' = Response("list_resources", <<>>, NoArguments, <<>>, "returned", NoExc,
                        "none", "none", list_resources(fs))
    /\ UNCHANGED <<fs, calls>>

ReadResource(uri) ==
    /\ \E now \in ClockOfResource(uri) :
         LET r == read_resource(fs, uri, now)
         IN  resp' = Response("read_resource", <<>>, NoArguments, uri, "returned", NoExc,
                              r.branch, r.result, r.contents)
    /\ UNCHANGED <<fs, calls>>

Next ==
    \/ ListTools
    \/ \E name \in ToolNames, arguments \in Bundles : CallTool(name, arguments)
    \/ ListResources
    \/ \E uri \in URIs : ReadResource(uri)

Spec == Init /\ [][Next]_vars

---------------------------------------------------------------------------
(* Vocabulary of the properties *)

RegisteredTools == {list_tools[i].name : i \in 1..Len(list_tools)}

Descriptor(name) == CHOOSE t \in {list_tools[i] : i \in 1..Len(list_tools)} : t.name = name

Required(name) == {Descriptor(name).inputSchema.required[i] :
                     i \in 1..Len(Descriptor(name).inputSchema.required)}

Called(name) == resp.op = "call_tool" /\ resp.name = name

\* the text contains the characters of word
Mentions(text, word) == FindFirst(text, word) # 0

\* os.path.exists(path) in directory d
PathExists(d, path) ==
    LET base == RStrip(path, "/")
    IN  /\ base # <<>>
        /\ Exists(d, base)
        /\ (base # path => IsDir(d, base))

\* the entries the catalog scan matches
Matching(d) == {n \in DOMAIN d : EndsWith(n, DOT_JSON) \/ EndsWith(n, DOT_TXT)}

Range(seq) == {seq[i] : i \in 1..Len(seq)}

---------------------------------------------------------------------------
(* C1: write_note, then read the file back *)

NoteSaved ==
    /\ Called(WRITE_NOTE)
    /\ resp.outcome = "returned"
    /\ resp.body = <<TextContent(<<"<check> Note saved to: ">> \o resp.arguments.filename.s)>>

ReadBack(now) == read_resource(fs, FILE_SCHEME \o resp.arguments.filename.s, now)

---------------------------------------------------------------------------
(* C2: required fields *)

MissingRequired(r) ==
    IF r.op = "call_tool" /\ r.name \in RegisteredTools
    THEN {f \in Required(r.name) : r.arguments[f].t = "absent"}
    ELSE {}

\* C2: a CallTool of a registered tool that lacks a required field f returns a
\* handled validation failure naming f, and the handler does not run: the
\* directory is unchanged and the reply is not the handler's own.
C2_RequiredFieldsValidated ==
    [][ (calls' = calls + 1 /\ MissingRequired(resp') # {}) =>
            /\ resp'.outcome = "returned"
            /\ Len(resp'.body) = 1
            /\ \E f \in MissingRequired(resp') : Mentions(resp'.body[1].text, KeyChars(f))
            /\ fs' = fs ]_vars

---------------------------------------------------------------------------
(* C3: unknown tools *)

UnknownToolCall(r) == r.op = "call_tool" /\ r.name \notin RegisteredTools

\* C3 as stated: for a name not in the registry CallTool returns exactly one text
\* item equal to "Unknown tool: <name>", does not raise and leaves the directory
\* unchanged.
C3_UnknownToolExactText ==
    [][ (calls' = calls + 1 /\ UnknownToolCall(resp')) =>
            /\ resp'.outcome = "returned"
            /\ resp'.body = <<TextContent(UNKNOWN_TOOL \o resp'.name)>>
            /\ fs' = fs ]_vars

\* C3 amended: the one text item is a cross mark and a space followed by
\* "Unknown tool: <name>".
C3_UnknownToolMarkedText ==
    [][ (calls' = calls + 1 /\ UnknownToolCall(resp')) =>
            /\ resp'.outcome = "returned"
            /\ resp'.exc = NoExc
            /\ resp'.body = <<TextContent(<<"<cross>", " ">> \o UNKNOWN_TOOL \o resp'.name)>>
            /\ fs' = fs ]_vars

C3_Witness ==
    /\ Called(GET_TIME)
    /\ resp.arguments.filename = Str(N_TXT)
    /\ resp.arguments.content = Str(<<"h", "i">>)

---------------------------------------------------------------------------
(* C4: failures inside a tool *)

\* C4: a CallTool of a registered tool never lets a failure escape: it returns
\* one text item, and when the file write of write_note fails, that item carries
\* the failure's message.
C4_FailuresAreHandled ==
    \A name \in RegisteredTools :
        Called(name) =>
            /\ resp.outcome = "returned"
            /\ Len(resp.body) = 1
            /\ ( /\ name = WRITE_NOTE
                 /\ resp.arguments.filename.t = "str"
                 /\ OpenWrite(fs, resp.arguments.filename.s) # NoExc ) =>
                    resp.body[1].text =
                        <<"<cross> Error writing note: ">>
                            \o OpenWrite(fs, resp.arguments.filename.s).msg

---------------------------------------------------------------------------
(* C5: the catalog *)

---------------------------------------------------------------------------
(* C6: a trailing slash *)

\* the reply r2 has the content of the reply r1, the clock reading apart; the
\* text of the unknown-URI arm repeats the request, so only its arm is compared
SameContent(d, r1, r2, uri2) ==
    /\ r2.branch = r1.branch
    /\ r2.result = r1.result
    /\ Len(r2.contents) = Len(r1.contents)
    /\ \/ r1.branch = "unknown"
       \/ \E now \in Times : read_resource(d, uri2, now).contents[1].text = r1.contents[1].text

\* C6: for every URI u, ReadResource(u) and ReadResource(u with "/" appended)
\* take the same arm and produce the same content, the timestamp apart.
C6_TrailingSlashIrrelevant ==
    resp.op = "read_resource" =>
        \A now \in Times :
            SameContent(fs, [branch |-> resp.branch, result |-> resp.result, contents |-> resp.body],
                        read_resource(fs, resp.uri \o <<"/">>, now), resp.uri \o <<"/">>)

---------------------------------------------------------------------------
(* C7: the count in the status resource *)

\* C7: the status resource reports, as resources_available, the length of the
\* list ListResources returns in the same directory.
C7_StatusCountIsLive ==
    (resp.op = "read_resource" /\ resp.branch = "status") =>
        /\ Len(resp.body) = 1
        /\ \E now \in Times :
             resp.body[1].text = StatusData(Len(list_resources(fs)), now)

C7_Witness ==
    /\ resp.op = "read_resource"
    /\ resp.branch = "status"
    /\ calls > 0
    /\ IsFile(fs, N_TXT)
    /\ Len(list_resources(fs)) = 3

---------------------------------------------------------------------------
(* C8: a file-backed URI that names nothing *)

FileBacked(uri) ==
    /\ StartsWith(uri, FILE_SCHEME)
    /\ RStrip(uri, "/") \notin {CURRENT_DIRECTORY_URI, SERVER_STATUS_URI}

\* the URI with the scheme prefix and one trailing separator removed
Resolved(uri) ==
    LET path == SubSeq(uri, Len(FILE_SCHEME) + 1, Len(uri))
    IN  IF path # <<>> /\ path[Len(path)] \in {"/", "\\"}
        THEN SubSeq(path, 1, Len(path) - 1)
        ELSE path

MissingRead(d, r) ==
    r.op = "read_resource" /\ FileBacked(r.uri) /\ ~PathExists(d, Resolved(r.uri))

---------------------------------------------------------------------------
(* C9: the tool list *)

\* the order in which handle_tools tests the names it serves
DispatchOrder == <<SAY_HELLO, CREATE_SAMPLE_DATA, WRITE_NOTE>>

\* C9: every ListTools reply, whatever was served before it, lists the tools
\* handle_tools serves, each once, in the order of registration.
C9_ToolListStable ==
    resp.op = "list_tools" =>
        /\ [i \in 1..Len(resp.body) |-> resp.body[i].name] = DispatchOrder
        /\ Cardinality({resp.body[i].name : i \in 1..Len(resp.body)}) = Len(resp.body)
        /\ \A n \in ToolNames :
             (n \in Range(DispatchOrder)) <=>
                (handle_tools(fs, n, NoArguments, 0) # unknown_tool(fs, n))

C9_Witness ==
    /\ resp.op = "list_tools"
    /\ calls > 0
    /\ IsFile(fs, N_TXT)

---------------------------------------------------------------------------
(* C10: the catalog and the resolver agree *)

\* C10: the URIs ListResources returns are pairwise distinct, and each of them,
\* with or without one trailing slash, is read in the same directory by the
\* directory-listing arm, the status arm or a successful read of the listed
\* file; never "unknown resource URI" or "not found".
C10_CatalogResolves ==
    resp.op = "list_resources" =>
        /\ \A i, j \in 1..Len(resp.body) : resp.body[i].uri = resp.body[j].uri => i = j
        /\ \A i \in 1..Len(resp.body), x \in {<<>>, <<"/">>}, now \in Times :
             LET r == read_resource(fs, resp.body[i].uri \o x, now)
             IN  \/ i = 1 /\ r.branch = "directory"
                 \/ i = 2 /\ r.branch = "status"
                 \/ /\ i > 2
                    /\ r.branch = "file"
                    /\ r.result = "read"
                    /\ \E n \in Matching(fs) :
                         /\ resp.body[i].uri = FILE_SCHEME \o n
                         /\ IsFile(fs, n)
                         /\ r.contents[1].text = fs[n].text

====
